---- MODULE Spec2Model ----
(***************************************************************************)
(* Model of proxy-yoinker: the four-stage pipeline of main() (probe URLs,  *)
(* fetch bodies, parse bodies, probe nodes), the HEAD-then-GET probe       *)
(* http_check, fetch_body, and the format dispatcher                       *)
(* detect_format_and_parse with its parsers.                               *)
(*                                                                         *)
(* A subscription body is a sequence of text fragments ("items"), one per  *)
(* line group, followed by optional padding.  Every item kind stands for a *)
(* concrete text:                                                          *)
(*   blank     whitespace only                                             *)
(*   yaml      proxies:\n  - {server: H, port: P}                          *)
(*   v2ray     {"outbounds":[{"settings":{"vnext":[{"address":"H",         *)
(*             "port":P}]}}]}                                              *)
(*   vmess     vmess://base64({"add":"H","port":P})                        *)
(*   vless     vless://u@H:P#n      trojan  trojan://u@H:P#n               *)
(*   ss        ss://u@H:P#n                                                *)
(*   ssr       ssr://base64(H:P:origin:aes-256-cfb:plain:pw)               *)
(*   inline    - {"server":"H","port":P}                                   *)
(*   inlineaddr  - {"address":"H","port":P}                                *)
(*   inlinenum   - {"server":0,"address":"H","port":P}                     *)
(*   entry     a further line `  - {server: H, port: P}` of a yaml item    *)
(*   hostport  H:P                                                         *)
(* An item with c = TRUE is the same text behind "# " (a YAML comment).    *)
(***************************************************************************)
EXTENDS Integers, Sequences, FiniteSets, TLC

VARIABLES
    mainpc,      \* position of main(): setup, spawn/collect of a stage, done, aborted
    maxIo,       \* args.max_io_workers
    maxParse,    \* args.max_parse_workers
    urls,        \* the candidate URL set (the HashSet of extracted URLs)
    queue,       \* inputs of the current wave that are not spawned yet
    tasks,       \* tasks[k]: the JoinHandles of wave k in spawn order
    sem,         \* sem[k]: free permits of the semaphore of wave k
    urlResults,  \* url_results
    workingUrls, \* working_urls, as handed to write_url_report and stage 2
    bodies,      \* bodies
    allNodes,    \* all_nodes
    nodeResults, \* node_results
    report,      \* TRUE once write_node_report has run
    pbody,       \* dispatcher harness: the body under test
    pres,        \* dispatcher harness: result of the applied function
    input,       \* what the run is started on: the input path and the HTTP stack
    rawText,     \* raw_text, the text gather_text returned; main reads it once,
                 \* to build the candidates: it is kept through the probe wave
    counter,     \* counter[k]: the AtomicUsize progress counter of wave k
    counts,      \* counts[k]: the counts the tasks of wave k obtained, in the
                 \* order of the increments
    urlReport,   \* the rows write_url_report wrote, once it has run
    nodeReport   \* the rows write_node_report wrote, once it has run

vars == <<mainpc, maxIo, maxParse, urls, queue, tasks, sem, urlResults, workingUrls,
          bodies, allNodes, nodeResults, report, pbody, pres, input, rawText, counter, counts,
          urlReport, nodeReport>>

pipeVars == <<mainpc, maxIo, maxParse, urls, queue, tasks, sem, urlResults,
              workingUrls, bodies, allNodes, nodeResults, report, input, rawText, counter, counts,
              urlReport, nodeReport>>

----------------------------------------------------------------------------
(* Bounds of the model *)

MaxItems == 2

MaxWorkers == 2

MaxTokens == 2

(* Program constants *)

U16Max == 65535

----------------------------------------------------------------------------
(* Bodies *)

\* an IPv6 literal: a host that holds colons itself
V6Host == "2001:db8::1"

Hosts == {"a", "b", "A", V6Host}

\* 70000 is a numeral of five digits above the u16 range, 123456 one of six
Ports == {80, 8443, 70000, 123456}

Kinds == {"yaml", "v2ray", "vmess", "vless", "trojan", "ss", "ssr", "inline",
          "hostport"}

BlankItem == [k |-> "blank", h |-> "a", p |-> 80, c |-> FALSE]

\* host b only appears with the valid port: keeps the item set small
HostPortPairs == {<<"a", 80>>, <<"b", 80>>, <<"a", 70000>>}

\* the IPv6 host and the numeral of six digits appear where the text spells
\* H:P out
LongItems ==
    {[k |-> "vless", h |-> V6Host, p |-> 8443, c |-> FALSE],
     [k |-> "trojan", h |-> V6Host, p |-> 8443, c |-> FALSE],
     [k |-> "vless", h |-> "a", p |-> 123456, c |-> FALSE],
     [k |-> "hostport", h |-> "a", p |-> 123456, c |-> FALSE]}

\* a further entry line `  - {server: H, port: P}`, indented as the entries
\* of a `proxies:` list are
EntryItems ==
    {[k |-> "entry", h |-> "b", p |-> 80, c |-> FALSE],
     [k |-> "entry", h |-> "b", p |-> 70000, c |-> FALSE]}

\* inline objects that name the host in `address`: one without `server`, one
\* whose `server` is a number
AddressItems ==
    {[k |-> "inlineaddr", h |-> "b", p |-> 80, c |-> FALSE],
     [k |-> "inlinenum", h |-> "b", p |-> 80, c |-> FALSE]}

Items ==
    {BlankItem} \cup LongItems \cup EntryItems \cup AddressItems \cup
    {[k |-> kd, h |-> hp[1], p |-> hp[2], c |-> cm] :
        kd \in Kinds, hp \in HostPortPairs, cm \in BOOLEAN}

\* what follows the items: nothing; filler that takes the body over 50 MB,
\* cut there at a char boundary or inside a character; filler that takes it
\* over 100 MB; filler lines that take it over 50,000 lines within 50 MB
Pads == {"none", "ascii50", "utf8cut50", "over100", "lines60k"}

SeqsUpTo(S, n) == UNION {[1..m -> S] : m \in 0..n}

\* at most one uncommented yaml item per body: a repeated top-level key is
\* outside what the model says about the YAML library
OneYaml(s) == Cardinality({i \in DOMAIN s : s[i].k = "yaml" /\ ~s[i].c}) <= 1

ParseBodies ==
    {[items |-> s, pad |-> "none"] : s \in {t \in SeqsUpTo(Items, MaxItems) : OneYaml(t)}}
    \cup
    {[items |-> s, pad |-> q] : s \in SeqsUpTo(Items, 1), q \in Pads \ {"none"}}

Node(host, port) == [host |-> host, port |-> port]

Panic == [panic |-> TRUE]

----------------------------------------------------------------------------
(* Program constants of config.rs *)

MAX_PROXIES_PER_CONFIG == 2000

MAX_HOSTPORT_MATCHES == 5000

MAX_JSON_MATCHES == 1000

(* Text helpers *)

\* variant: the iterator is not capped
TakeAll(s, n) == s

\* Iterator::take(n)
Take(s, n) == IF Len(s) <= n THEN s ELSE SubSeq(s, 1, n)

\* the literal (lower-case) substrings an item's text contains
Keywords(it) ==
    CASE it.k = "yaml"     -> {"proxies:", "{", "server"}
      [] it.k = "v2ray"    -> {"{", "outbounds", "address"}
      [] it.k = "vmess"    -> {"vmess://", "ss://"}
      [] it.k = "vless"    -> {"vless://", "ss://"}
      [] it.k = "trojan"   -> {"trojan://"}
      [] it.k = "ss"       -> {"ss://"}
      [] it.k = "ssr"      -> {"ssr://"}
      [] it.k = "inline"   -> {"{", "server"}
      [] it.k = "entry"    -> {"{", "server"}
      [] it.k = "inlineaddr" -> {"{", "address"}
      [] it.k = "inlinenum"  -> {"{", "server", "address"}
      [] OTHER             -> {}

\* str::contains on the text (the sniffed keywords are lower-case already, so
\* to_lowercase leaves them as they are)
Contains(text, kw) == \E i \in DOMAIN text : kw \in Keywords(text[i])

\* text.trim().is_empty()
IsBlank(text) == \A i \in DOMAIN text : text[i].k = "blank"

NonBlank(text) == SelectSeq(text, LAMBDA it : it.k # "blank")

\* text.trim_start().starts_with('{'): only the v2ray text begins with a brace
StartsWithBrace(text) ==
    /\ NonBlank(text) # <<>>
    /\ NonBlank(text)[1].k = "v2ray"
    /\ ~NonBlank(text)[1].c

\* Value::as_u64 followed by `port <= 65535`
PortInRange(p) == p <= U16Max

\* `port as u16`: the low 16 bits
AsU16(p) == p % (U16Max + 1)

\* str::parse::<u16> of a decimal numeral
ParseU16Ok(p) == p <= U16Max

\* nodes of the entries whose port is a u16 already
MapNodes(s) == [i \in 1..Len(s) |-> Node(s[i].h, s[i].p)]

\* nodes of the entries whose port is a u64: Node::new(host, port as u16)
MapNodesCast(s) == [i \in 1..Len(s) |-> Node(s[i].h, AsU16(s[i].p))]

\* str::split(':') of a host
HostFields(h) == IF h = V6Host THEN <<"2001", "db8", "", "1">> ELSE <<h>>

\* the text whose fields are f
JoinColon(f) == CHOOSE h \in Hosts : HostFields(h) = f

\* the segment "H:P" of an item, as its fields between the colons
Segment(it) == HostFields(it.h) \o <<it.p>>

\* all but the last element
Front(s) == SubSeq(s, 1, Len(s) - 1)

\* utils.rs safe_limit_text: the byte slice at MAX_TEXT_SIZE panics when the
\* cut is not a char boundary; the padding that is left is a comment line
safe_limit_text(body) ==
    IF body.pad = "utf8cut50" THEN Panic
    ELSE [panic |-> FALSE, text |-> body.items,
          cut |-> CASE body.pad \in {"ascii50", "over100"} -> "bytes"
                    [] body.pad = "lines60k" -> "lines"
                    [] OTHER -> "none"]

----------------------------------------------------------------------------
(* Parsers *)

\* serde_yaml::from_str of the whole text gives a mapping with `proxies`
\* only when the one yaml item, with the entry lines that follow it, is all
\* the document holds beside blank lines and comments
YamlDocOk(text) ==
    \E i \in DOMAIN text :
        /\ text[i].k = "yaml" /\ ~text[i].c
        /\ \A j \in DOMAIN text \ {i} :
              \/ text[j].k = "blank"
              \/ text[j].c
              \/ text[j].k = "entry" /\ j > i

\* variant: the loop stops at the first entry or match it rejects
StopAtReject(s) ==
    LET bad == {i \in DOMAIN s : ~PortInRange(s[i].p)}
    IN  IF bad = {} THEN s
        ELSE SubSeq(s, 1, (CHOOSE i \in bad : \A j \in bad : i <= j) - 1)

\* the loop over the entries or matches: a failed `if let` or `if port <=
\* 65535` skips the one at hand and the loop goes on with the next
KeepValid(s) == SelectSeq(s, LAMBDA it : PortInRange(it.p))

parse_clash_yaml(text) ==
    IF YamlDocOk(text)
    THEN LET proxies == SelectSeq(text, LAMBDA it : it.k \in {"yaml", "entry"} /\ ~it.c)
         IN  MapNodesCast(KeepValid(Take(proxies, MAX_PROXIES_PER_CONFIG)))
    ELSE <<>>

\* serde_json::from_str of the whole text succeeds only for the v2ray object alone
parse_v2ray_json(text) ==
    IF Len(NonBlank(text)) = 1 /\ NonBlank(text)[1].k = "v2ray" /\ ~NonBlank(text)[1].c
    THEN MapNodesCast(KeepValid(NonBlank(text)))
    ELSE <<>>

parse_vmess(text) ==
    MapNodesCast(KeepValid(SelectSeq(text, LAMBDA it : it.k = "vmess")))

\* the smallest element of a non-empty set of integers
MinOf(S) == CHOOSE x \in S : \A y \in S : x <= y

\* captures of ss_regex `ss://[^@]+@([^/?#]+)`: "vmess://" and "vless://" end
\* in "ss://" too; a vmess payload holds no '@', so the match that starts
\* there runs on to the next '@' of the text and captures what follows it
RECURSIVE SsCaptures(_, _)
SsCaptures(text, i) ==
    IF i > Len(text) THEN <<>>
    ELSE IF text[i].k \in {"vless", "ss"}
         THEN <<text[i]>> \o SsCaptures(text, i + 1)
    ELSE IF text[i].k = "vmess"
         THEN LET J == {j \in (i + 1)..Len(text) : text[j].k \in {"vless", "trojan", "ss"}}
              IN  IF J = {} THEN <<>>
                  ELSE <<text[MinOf(J)]>> \o SsCaptures(text, MinOf(J) + 1)
    ELSE SsCaptures(text, i + 1)

\* captures_iter of the regex that parse_protocol_url selects
ProtocolCaptures(text, protocol) ==
    CASE protocol = "vless"  -> SelectSeq(text, LAMBDA it : it.k = "vless")
      [] protocol = "trojan" -> SelectSeq(text, LAMBDA it : it.k = "trojan")
      [] protocol = "ss"     -> SsCaptures(text, 1)
      [] OTHER               -> <<>>

\* variant: the segment is split at its first colon
SplitFirst(seg) == [h |-> seg[1], rest |-> Tail(seg)]

\* hostport.rfind(':'): the host is what stands before the last colon, the
\* port text what stands after it
SplitLast(seg) == [h |-> JoinColon(Front(seg)), rest |-> <<seg[Len(seg)]>>]

\* port_str.parse::<u16>() is Ok: a text that holds a colon is no numeral
PortStrOk(rest) == Len(rest) = 1 /\ ParseU16Ok(rest[1])

\* each capture "H:P" is split at its last colon and gives a node when the
\* port text parses as u16
parse_protocol_url(text, protocol) ==
    LET caps == ProtocolCaptures(text, protocol)
        split == [i \in DOMAIN caps |-> SplitLast(Segment(caps[i]))]
        ok == SelectSeq(split, LAMBDA sp : PortStrOk(sp.rest))
    IN  [i \in DOMAIN ok |-> Node(ok[i].h, ok[i].rest[1])]

parse_ssr(text) ==
    MapNodes(SelectSeq(text, LAMBDA it : it.k = "ssr" /\ ParseU16Ok(it.p)))

\* the kinds whose text is a JSON object behind "- "
InlineKinds == {"inline", "inlineaddr", "inlinenum"}

\* a JSON value: a string, a number, or the key is absent
Absent == [t |-> "absent"]

Str(x) == [t |-> "str", s |-> x]

Num == [t |-> "num"]

\* obj.get("server") and obj.get("address") of the object of an item
InlineObject(it) ==
    CASE it.k = "inline"     -> [server |-> Str(it.h), address |-> Absent]
      [] it.k = "inlineaddr" -> [server |-> Absent, address |-> Str(it.h)]
      [] OTHER               -> [server |-> Num, address |-> Str(it.h)]

\* obj.get("server").or_else(|| obj.get("address")): `address` is read only
\* when the key `server` is absent
HostOf(obj) ==
    IF obj.server.t # "absent" THEN obj.server ELSE obj.address

\* json_inline_regex `-\s*(\{[^}]*\})` also matches the entry of a yaml item,
\* whose unquoted keys are not JSON; `.and_then(|v| v.as_str())` keeps the
\* objects whose host value is a string
parse_inline_json(text) ==
    LET matches == SelectSeq(text, LAMBDA it : it.k \in InlineKinds \cup {"yaml", "entry"})
        objects == SelectSeq(Take(matches, MAX_JSON_MATCHES), LAMBDA it : it.k \in InlineKinds)
    IN  MapNodesCast(KeepValid(SelectSeq(objects,
                                         LAMBDA it : HostOf(InlineObject(it)).t = "str")))

\* the digits `\d{2,5}` takes of a numeral: its first five
RECURSIVE FirstFive(_)
FirstFive(p) == IF p > 99999 THEN FirstFive(p \div 10) ELSE p

\* the match of hostport_regex `([0-9a-zA-Z.\-]+):(\d{2,5})` in "H:P": the
\* host group cannot hold a colon, so it is the last field of H, and the port
\* group ends after five digits
HostPortMatch(it) ==
    [k |-> it.k, h |-> HostFields(it.h)[Len(HostFields(it.h))], p |-> FirstFive(it.p),
     c |-> it.c]

\* hostport_regex finds H:P in bare pairs and in the URIs that spell it out
parse_generic(text) ==
    LET spelled == SelectSeq(text, LAMBDA it : it.k \in {"hostport", "vless", "trojan", "ss"})
        matches == [i \in DOMAIN spelled |-> HostPortMatch(spelled[i])]
    IN  MapNodes(SelectSeq(Take(matches, MAX_HOSTPORT_MATCHES),
                           LAMBDA it : ParseU16Ok(it.p)))

----------------------------------------------------------------------------
(* Format dispatcher *)

\* variant: the vmess block placed ahead of the structured-config blocks
ChainVmessFirst == <<"vmess", "yaml", "json", "vless", "trojan", "ss", "ssr", "inline",
                     "generic">>

Chain == <<"yaml", "json", "vmess", "vless", "trojan", "ss", "ssr", "inline",
           "generic">>

Trigger(parser, text) ==
    CASE parser = "yaml"   -> Contains(text, "proxies:") \/ Contains(text, "proxy-groups:")
      [] parser = "json"   -> StartsWithBrace(text)
                                /\ (Contains(text, "outbounds") \/ Contains(text, "inbounds"))
      [] parser = "vmess"  -> Contains(text, "vmess://")
      [] parser = "vless"  -> Contains(text, "vless://")
      [] parser = "trojan" -> Contains(text, "trojan://")
      [] parser = "ss"     -> Contains(text, "ss://")
      [] parser = "ssr"    -> Contains(text, "ssr://")
      [] parser = "inline" -> Contains(text, "{")
                                /\ (Contains(text, "server") \/ Contains(text, "address"))
      [] OTHER             -> TRUE

RunParser(parser, text) ==
    CASE parser = "yaml"   -> parse_clash_yaml(text)
      [] parser = "json"   -> parse_v2ray_json(text)
      [] parser = "vmess"  -> parse_vmess(text)
      [] parser = "ssr"    -> parse_ssr(text)
      [] parser = "inline" -> parse_inline_json(text)
      [] parser = "generic" -> parse_generic(text)
      [] OTHER             -> parse_protocol_url(text, parser)

\* variant: the early `return nodes` is missing, every triggered parser runs
\* and the generic result is what comes back
RECURSIVE TryFromKeepGoing(_, _, _)
TryFromKeepGoing(i, text, tried) ==
    IF i = Len(Chain)
    THEN [panic |-> FALSE, nodes |-> RunParser(Chain[i], text),
          tried |-> Append(tried, Chain[i]), by |-> Chain[i]]
    ELSE IF Trigger(Chain[i], text)
         THEN TryFromKeepGoing(i + 1, text, Append(tried, Chain[i]))
         ELSE TryFromKeepGoing(i + 1, text, tried)

\* variant: the `!nodes.is_empty()` test is missing, the first triggered
\* parser returns whatever it found
RECURSIVE TryFromNoFallThrough(_, _, _)
TryFromNoFallThrough(i, text, tried) ==
    IF i = Len(Chain) \/ Trigger(Chain[i], text)
    THEN [panic |-> FALSE, nodes |-> RunParser(Chain[i], text),
          tried |-> Append(tried, Chain[i]), by |-> Chain[i]]
    ELSE TryFromNoFallThrough(i + 1, text, tried)

\* the chain of `if trigger { let nodes = parse(); if !nodes.is_empty() { return nodes; } }`
\* from position i on; tried lists the parsers invoked so far
RECURSIVE TryFrom(_, _, _)
TryFrom(i, text, tried) ==
    IF i = Len(Chain)
    THEN [panic |-> FALSE, nodes |-> RunParser(Chain[i], text),
          tried |-> Append(tried, Chain[i]), by |-> Chain[i]]
    ELSE IF Trigger(Chain[i], text)
         THEN IF RunParser(Chain[i], text) # <<>>
              THEN [panic |-> FALSE, nodes |-> RunParser(Chain[i], text),
                    tried |-> Append(tried, Chain[i]), by |-> Chain[i]]
              ELSE TryFrom(i + 1, text, Append(tried, Chain[i]))
         ELSE TryFrom(i + 1, text, tried)

detect_format_and_parse(body) ==
    IF IsBlank(body.items) /\ body.pad = "none"
    THEN [panic |-> FALSE, nodes |-> <<>>, tried |-> <<>>, by |-> "none"]
    ELSE IF safe_limit_text(body).panic THEN Panic
    ELSE TryFrom(1, safe_limit_text(body).text, <<>>)

\* tokio::time::timeout polls the wrapped future first and looks at the
\* deadline only while that future is pending: a future that never suspends
\* is returned whole however long its single poll took
Timeout(suspends, overBudget, value) ==
    IF suspends /\ overBudget THEN [elapsed |-> TRUE]
    ELSE [elapsed |-> FALSE, value |-> value]

\* what the early returns of parse_subscription_safe give: no node, no parser
\* invoked, the text not normalized
Skipped == [panic |-> FALSE, nodes |-> <<>>, tried |-> <<>>, cut |-> "none"]

\* variant: the test of the size is missing
OversizeLimit100(body) == FALSE

\* body.len() > 100 * 1024 * 1024
Oversize(body) == body.pad = "over100"

\* slow: detect_format_and_parse runs longer than PARSE_TIMEOUT on this body;
\* tried and cut tell which parsers ran and what safe_limit_text did
parse_subscription_safe(body, slow) ==
    IF body.items = <<>> /\ body.pad = "none" THEN Skipped
    ELSE IF Oversize(body) THEN Skipped
    ELSE LET result == Timeout(FALSE, slow, detect_format_and_parse(body))
         IN  IF result.elapsed THEN Skipped
             ELSE IF result.value.panic THEN Panic
             ELSE [panic |-> FALSE, nodes |-> result.value.nodes,
                   tried |-> result.value.tried,
                   cut |-> IF result.value.tried = <<>> THEN "none"
                           ELSE safe_limit_text(body).cut]

----------------------------------------------------------------------------
(* The world of the pipeline *)

Urls == {"u1", "u2"}

Statuses == {200, 301, 404}

\* the input text, word by word: a word is a URL or something else
Words == Urls \cup {"text"}

InputTexts == SeqsUpTo(Words, MaxTokens)

\* what the input path names: a readable file, a path that does not exist or
\* cannot be read, a directory that cannot be listed
PathKinds == {"file", "missing", "baddir"}

HostPort(h, p) == [k |-> "hostport", h |-> h, p |-> p, c |-> FALSE]

\* the bodies a subscription URL may serve
PipeBodies ==
    { [items |-> <<>>, pad |-> "none"],
      [items |-> <<HostPort("a", 80)>>, pad |-> "none"],
      [items |-> <<[k |-> "yaml", h |-> "A", p |-> 80, c |-> FALSE],
                   [k |-> "vmess", h |-> "a", p |-> 80, c |-> TRUE]>>, pad |-> "none"],
      [items |-> <<HostPort("a", 443), HostPort("a", 443)>>, pad |-> "none"],
      [items |-> <<HostPort("a", 80)>>, pad |-> "utf8cut50"] }

\* Option values
None == [some |-> FALSE]

Some(v) == [some |-> TRUE, v |-> v]

\* outcomes of one request, as the task sees them
Unset == [o |-> "unset"]

Resp(s) == [o |-> "resp", s |-> s]

Failed(why) == [o |-> why]

RECURSIVE SetToSeq(_)
SetToSeq(S) ==
    IF S = {} THEN <<>>
    ELSE LET x == CHOOSE y \in S : TRUE IN <<x>> \o SetToSeq(S \ {x})

Range(s) == {s[i] : i \in DOMAIN s}

RemoveAt(s, i) == [j \in 1..(Len(s) - 1) |-> IF j < i THEN s[j] ELSE s[j + 1]]

Stages == 1..4

\* a spawned task: waiting for its permit
NewTask(item) ==
    [item |-> item, st |-> "waiting", head |-> Unset, get |-> Unset,
     heads |-> 0, gets |-> 0, slow |-> FALSE, res |-> Unset, count |-> 0, target |-> Unset]

\* variant: a probe that gave no status is put back to be run again
JoinedRetry(t) ==
    IF t.heads = 1 /\ ~t.res.status.some
    THEN [t EXCEPT !.st = "waiting", !.res = Unset]
    ELSE [item |-> t.item, st |-> "joined", head |-> Unset, get |-> Unset,
          heads |-> 0, gets |-> 0, slow |-> FALSE, res |-> Unset, count |-> 0,
          target |-> Unset]

\* what is left of a task once main has awaited its JoinHandle
Joined(t) ==
    [item |-> t.item, st |-> "joined", head |-> Unset, get |-> Unset,
     heads |-> 0, gets |-> 0, slow |-> FALSE, res |-> Unset, count |-> 0, target |-> Unset]

\* the states in which a task holds a permit
Holding == {"head", "get", "fetch", "text", "parse"}

Held(k) == Cardinality({i \in DOMAIN tasks[k] : tasks[k][i].st \in Holding})

Limit(k) == IF k = 3 THEN maxParse ELSE maxIo

\* the runtime lives as long as main has not returned
Running == mainpc.ph \in {"spawn", "collect"}

FirstStep(k) == CASE k = 2 -> "fetch" [] k = 3 -> "parse" [] OTHER -> "head"

\* Node::url: format!("http://{}:{}", self.host, self.port)
url(node) == [scheme |-> "http", host |-> node.host, port |-> node.port]

\* the address a task of wave k sends its requests to: the URL it was given,
\* or the URL of the node it was given
Target(k, item) == CASE k = 4 -> url(item) [] k = 3 -> Unset [] OTHER -> [url |-> item]

----------------------------------------------------------------------------
(* main: setup *)

Init ==
    /\ mainpc = [ph |-> "setup", k |-> 0]
    /\ maxIo \in 0..MaxWorkers
    /\ maxParse \in 0..MaxWorkers
    /\ urls = {}
    /\ queue = <<>>
    /\ tasks = [k \in Stages |-> <<>>]
    /\ sem = [k \in Stages |-> 0]
    /\ urlResults = <<>>
    /\ workingUrls = <<>>
    /\ bodies = <<>>
    /\ allNodes = {}
    /\ nodeResults = <<>>
    /\ report = FALSE
    /\ pbody = [items |-> <<>>, pad |-> "none"]
    /\ pres = [op |-> "unset"]
    /\ input \in [path : PathKinds, client : BOOLEAN]
    /\ rawText = <<>>
    /\ counter = [k \in Stages |-> 0]
    /\ counts = [k \in Stages |-> <<>>]
    /\ urlReport = None
    /\ nodeReport = None

\* gather_text: a directory that cannot be listed is the error of
\* read_dir(path).await?; the content of a file that cannot be read is left
\* out, which for a path that is no directory leaves the empty text
gather_text(path, content) ==
    CASE path = "baddir" -> [ok |-> FALSE]
      [] path = "missing" -> [ok |-> TRUE, text |-> <<>>]
      [] OTHER -> [ok |-> TRUE, text |-> content]

\* variant: a URL is returned for its first match only
extract_urls_first(text) ==
    SelectSeq([n \in DOMAIN text |->
                  IF \E m \in 1..(n - 1) : text[m] = text[n] THEN "text" ELSE text[n]],
              LAMBDA w : w \in Urls)

\* url_regex.find_iter(text): every match, in text order
extract_urls(text) == SelectSeq(text, LAMBDA w : w \in Urls)

\* variant: the matches are probed as extracted
CandidatesAll(text) == extract_urls(text)

\* extract_urls(..).into_iter().collect::<HashSet<_>>().into_iter().collect():
\* one entry for each distinct URL
Candidates(text) == SetToSeq(Range(extract_urls(text)))

\* the client is built and gather_text returned Ok: main extracts the
\* candidate URLs and goes on to the probe wave
Setup ==
    /\ mainpc.ph = "setup"
    /\ input.client
    /\ \E content \in InputTexts :
        LET g == gather_text(input.path, content)
        IN  /\ g.ok
            /\ rawText' = g.text
            /\ queue' = Candidates(g.text)
            /\ urls' = Range(queue')
    /\ sem' = [sem EXCEPT ![1] = maxIo]
    /\ mainpc' = [ph |-> "spawn", k |-> 1]
    /\ UNCHANGED <<maxIo, maxParse, tasks, urlResults, workingUrls, bodies,
                   allNodes, nodeResults, report, pbody, pres, input, counter, counts,
                       urlReport, nodeReport>>

\* `Client::builder()...build()?` or `gather_text(&args.input).await?`
\* returned the error: main returns it
SetupFail ==
    /\ mainpc.ph = "setup"
    /\ ~input.client \/ ~gather_text(input.path, <<>>).ok
    /\ mainpc' = [ph |-> "setup_failed", k |-> 0]
    /\ UNCHANGED <<maxIo, maxParse, urls, queue, tasks, sem, urlResults, workingUrls,
                   bodies, allNodes, nodeResults, report, pbody, pres, input, rawText, counter,
                       counts, urlReport, nodeReport>>

----------------------------------------------------------------------------
(* main: one wave *)

\* the spawn loop: tokio::spawn of the next input; a HashSet (stages 1 and 4)
\* is iterated in any order, a Vec (stages 2 and 3) front to back
Spawn(k) ==
    /\ mainpc = [ph |-> "spawn", k |-> k]
    /\ queue # <<>>
    /\ \E i \in DOMAIN queue :
        /\ k \in {2, 3} => i = 1
        /\ tasks' = [tasks EXCEPT ![k] = Append(@, NewTask(queue[i]))]
        /\ queue' = RemoveAt(queue, i)
    /\ UNCHANGED <<mainpc, maxIo, maxParse, urls, sem, urlResults, workingUrls, bodies,
                   allNodes, nodeResults, report, pbody, pres, input, rawText, counter, counts,
                       urlReport, nodeReport>>

\* the spawn loop is over; main goes on to await the handles
SpawnEnd(k) ==
    /\ mainpc = [ph |-> "spawn", k |-> k]
    /\ queue = <<>>
    /\ mainpc' = [ph |-> "collect", k |-> k]
    /\ UNCHANGED <<maxIo, maxParse, urls, queue, tasks, sem, urlResults, workingUrls,
                   bodies, allNodes, nodeResults, report, pbody, pres, input, rawText, counter,
                       counts, urlReport, nodeReport>>

\* variant: the permit count is not looked at
PermitAlways(k) == TRUE

\* Semaphore::acquire resolves only while a permit is free
PermitFree(k) == sem[k] > 0

\* semaphore.acquire().await: the task takes a permit and starts its operation
Acquire(k, i) ==
    /\ Running
    /\ i \in DOMAIN tasks[k]
    /\ tasks[k][i].st = "waiting"
    /\ PermitFree(k)
    /\ sem' = [sem EXCEPT ![k] = @ - 1]
    /\ tasks' = [tasks EXCEPT ![k][i].st = FirstStep(k),
                               ![k][i].heads = IF k \in {1, 4} THEN 1 ELSE 0,
                               ![k][i].gets = IF k = 2 THEN 1 ELSE 0,
                               ![k][i].target = Target(k, tasks[k][i].item)]
    /\ UNCHANGED <<mainpc, maxIo, maxParse, urls, queue, urlResults, workingUrls, bodies,
                   allNodes, nodeResults, report, pbody, pres, input, rawText, counter, counts,
                       urlReport, nodeReport>>

\* variant: each task counts on a counter of its own
FetchAddOwn(c) == 1

\* counter.fetch_add(1, Ordering::SeqCst): the value the counter holds after
\* the atomic increment
FetchAdd(c) == c + 1

\* the operation of the task gave r: the task increments the counter of its
\* wave, reports the count and returns r; the permit is dropped with the task
Finish(k, i, t, r) ==
    /\ counter' = [counter EXCEPT ![k] = FetchAdd(@)]
    /\ counts' = [counts EXCEPT ![k] = Append(@, FetchAdd(counter[k]))]
    /\ tasks' = [tasks EXCEPT ![k][i] = [t EXCEPT !.st = "done", !.res = r,
                                                   !.count = FetchAdd(counter[k])]]
    /\ sem' = [sem EXCEPT ![k] = @ + 1]
    /\ UNCHANGED <<mainpc, maxIo, maxParse, urls, queue, urlResults, workingUrls, bodies,
                   allNodes, nodeResults, report, pbody, pres, input, rawText, urlReport,
                   nodeReport>>

\* variant: the elapsed time is recorded on both arms
ProbeResultTimed(status, elapsed) == [status |-> status, latency |-> Some(elapsed)]

\* start.elapsed() in the time units of the model: the endpoint u1 is the
\* slow one
Elapsed(target) == IF "url" \in DOMAIN target /\ target.url = "u1" THEN 2 ELSE 1

\* the two arms of `match result` in http_check
ProbeResult(status, elapsed) ==
    [status |-> status, latency |-> IF status.some THEN Some(elapsed) ELSE None]

----------------------------------------------------------------------------
(* http_check, run by the tasks of waves 1 and 4 *)

\* variant: redirects are not accepted
AcceptedBelow300(s) == s < 300

\* variant: client errors are accepted
AcceptedBelow500(s) == s < 500

\* the guard `resp.status().as_u16() < 400` of the HEAD arm
Accepted(s) == s < 400

\* client.head(url).send() answered with status s: a status below 400 is the
\* result, any other makes the task issue the GET
HeadRespond(k, i, s) ==
    /\ Running
    /\ k \in {1, 4} /\ i \in DOMAIN tasks[k]
    /\ tasks[k][i].st = "head"
    /\ IF Accepted(s)
       THEN Finish(k, i, [tasks[k][i] EXCEPT !.head = Resp(s)],
                   ProbeResult(Some(s), Elapsed(tasks[k][i].target)))
       ELSE /\ tasks' = [tasks EXCEPT ![k][i].head = Resp(s), ![k][i].st = "get",
                                       ![k][i].gets = @ + 1]
            /\ UNCHANGED <<mainpc, maxIo, maxParse, urls, queue, sem, urlResults, workingUrls,
                           bodies, allNodes, nodeResults, report, pbody, pres, input, rawText,
                               counter, counts, urlReport, nodeReport>>

\* the HEAD failed in transport: the task issues the GET
HeadError(k, i) ==
    /\ Running
    /\ k \in {1, 4} /\ i \in DOMAIN tasks[k]
    /\ tasks[k][i].st = "head"
    /\ tasks' = [tasks EXCEPT ![k][i].head = Failed("err"), ![k][i].st = "get",
                               ![k][i].gets = @ + 1]
    /\ UNCHANGED <<mainpc, maxIo, maxParse, urls, queue, sem, urlResults, workingUrls,
                   bodies, allNodes, nodeResults, report, pbody, pres, input, rawText, counter,
                       counts, urlReport, nodeReport>>

\* client.get(url).send() answered with status s
GetRespond(k, i, s) ==
    /\ Running
    /\ k \in {1, 4} /\ i \in DOMAIN tasks[k]
    /\ tasks[k][i].st = "get"
    /\ Finish(k, i, [tasks[k][i] EXCEPT !.get = Resp(s)],
              ProbeResult(Some(s), Elapsed(tasks[k][i].target)))

\* the GET failed in transport
GetError(k, i) ==
    /\ Running
    /\ k \in {1, 4} /\ i \in DOMAIN tasks[k]
    /\ tasks[k][i].st = "get"
    /\ Finish(k, i, [tasks[k][i] EXCEPT !.get = Failed("err")],
              ProbeResult(None, Elapsed(tasks[k][i].target)))

\* the deadline of timeout(timeout_duration, ..) passes while the HEAD or the
\* GET is pending
ProbeTimeout(k, i) ==
    /\ Running
    /\ k \in {1, 4} /\ i \in DOMAIN tasks[k]
    /\ tasks[k][i].st \in {"head", "get"}
    /\ Finish(k, i,
              IF tasks[k][i].st = "head"
              THEN [tasks[k][i] EXCEPT !.head = Failed("timeout")]
              ELSE [tasks[k][i] EXCEPT !.get = Failed("timeout")],
              ProbeResult(None, Elapsed(tasks[k][i].target)))

----------------------------------------------------------------------------
(* fetch_body, run by the tasks of wave 2 *)

\* timeout(.., client.get(url).send()) gave the response; the task goes on
\* to response.text()
FetchSendOk(i) ==
    /\ Running
    /\ i \in DOMAIN tasks[2]
    /\ tasks[2][i].st = "fetch"
    /\ tasks' = [tasks EXCEPT ![2][i].st = "text", ![2][i].get = Resp(200)]
    /\ UNCHANGED <<mainpc, maxIo, maxParse, urls, queue, sem, urlResults, workingUrls,
                   bodies, allNodes, nodeResults, report, pbody, pres, input, rawText, counter,
                       counts, urlReport, nodeReport>>

\* the send failed or the deadline passed
FetchSendFail(i) ==
    /\ Running
    /\ i \in DOMAIN tasks[2]
    /\ tasks[2][i].st = "fetch"
    /\ \E why \in {"err", "timeout"} :
        Finish(2, i, [tasks[2][i] EXCEPT !.get = Failed(why)], None)

\* response.text() gave the body. It is awaited outside timeout(..), so the
\* deadline is not looked at while the body is read: slow tells that the
\* body was complete only after timeout_duration had passed
FetchText(i, b) ==
    /\ Running
    /\ i \in DOMAIN tasks[2]
    /\ tasks[2][i].st = "text"
    /\ \E late \in BOOLEAN :
        Finish(2, i, [tasks[2][i] EXCEPT !.slow = late], Some(b))

\* response.text() failed
FetchTextErr(i) ==
    /\ Running
    /\ i \in DOMAIN tasks[2]
    /\ tasks[2][i].st = "text"
    /\ Finish(2, i, [tasks[2][i] EXCEPT !.get = Failed("err")], None)

----------------------------------------------------------------------------
(* parse_subscription_safe, run by the tasks of wave 3 *)

\* the parse runs to its end in one poll; a panic unwinds the task, which
\* drops the permit
ParseRun(i) ==
    /\ Running
    /\ i \in DOMAIN tasks[3]
    /\ tasks[3][i].st = "parse"
    /\ \E slow \in BOOLEAN :
        LET r == parse_subscription_safe(tasks[3][i].item.body, slow)
        IN  IF r.panic
            THEN /\ tasks' = [tasks EXCEPT ![3][i].st = "panicked", ![3][i].slow = slow]
                 /\ sem' = [sem EXCEPT ![3] = @ + 1]
                 /\ UNCHANGED <<mainpc, maxIo, maxParse, urls, queue, urlResults, workingUrls,
                                bodies, allNodes, nodeResults, report, pbody, pres, input,
                                    rawText, counter, counts, urlReport, nodeReport>>
            ELSE Finish(3, i, [tasks[3][i] EXCEPT !.slow = slow], r.nodes)

----------------------------------------------------------------------------
(* main: collecting a wave *)

\* variant: main takes the results as the tasks finish: of the tasks that are
\* done, the one that finished first
NextIdxAsFinished(k) ==
    LET D == {i \in DOMAIN tasks[k] : tasks[k][i].st \in {"done", "panicked"}}
    IN  IF D # {}
        THEN CHOOSE i \in D : \A j \in D : tasks[k][i].count <= tasks[k][j].count
        ELSE IF \A i \in DOMAIN tasks[k] : tasks[k][i].st = "joined"
             THEN Len(tasks[k]) + 1
             ELSE 0

\* the handle main awaits next: `for task in .._tasks` goes through the
\* handles in the order they were pushed, the spawn order
NextIdx(k) == Cardinality({i \in DOMAIN tasks[k] : tasks[k][i].st = "joined"}) + 1

\* variant: the loop over the handles stops ahead of its end
AllJoinedLoose(k) == TRUE

\* `for task in .._tasks` has awaited every handle of the wave
AllJoined(k) == NextIdx(k) = Len(tasks[k]) + 1

\* variant: nodes of one host are the same node
NodeEqHostOnly(a, b) == a.host = b.host

\* PartialEq for Node, by which the HashSet tells nodes apart
NodeEq(a, b) == a.host = b.host /\ a.port = b.port

\* all_nodes.extend(nodes): a node is inserted unless the set has its equal
RECURSIVE extend(_, _)
extend(set, nodes) ==
    IF nodes = <<>> THEN set
    ELSE LET n == Head(nodes)
         IN  extend(IF \E m \in set : NodeEq(m, n) THEN set ELSE set \cup {n}, Tail(nodes))

\* variant: a failed fetch is kept as an empty body
FetchedBodyOrEmpty(t) ==
    <<[url |-> t.item,
       body |-> IF t.res.some THEN t.res.v ELSE [items |-> <<>>, pad |-> "none"]]>>

\* `if let Some(body) = body { bodies.push(..) }`: what a joined fetch task
\* adds to bodies
FetchedBody(t) == IF t.res.some THEN <<[url |-> t.item, body |-> t.res.v]>> ELSE <<>>

\* `task.await?` returned Ok: the result goes where the loop body puts it
Collect(k) ==
    /\ mainpc = [ph |-> "collect", k |-> k]
    /\ NextIdx(k) \in DOMAIN tasks[k]
    /\ LET t == tasks[k][NextIdx(k)]
       IN  /\ t.st = "done"
           /\ tasks' = [tasks EXCEPT ![k][NextIdx(k)] = Joined(t)]
           /\ urlResults' = IF k = 1
                THEN Append(urlResults, [url |-> t.item, status |-> t.res.status,
                                         latency |-> t.res.latency])
                ELSE urlResults
           /\ bodies' = IF k = 2 THEN bodies \o FetchedBody(t) ELSE bodies
           /\ allNodes' = IF k = 3 THEN extend(allNodes, t.res) ELSE allNodes
           /\ nodeResults' = IF k = 4
                THEN Append(nodeResults, [node |-> t.item, status |-> t.res.status,
                                          latency |-> t.res.latency])
                ELSE nodeResults
    /\ UNCHANGED <<mainpc, maxIo, maxParse, urls, queue, sem, workingUrls, report, pbody, pres,
        input, rawText, counter, counts, urlReport, nodeReport>>

\* `task.await?` returned the JoinError of a panicked task: main returns the
\* error, the runtime is dropped and every task parked at an await with it
CollectAbort(k) ==
    /\ mainpc = [ph |-> "collect", k |-> k]
    /\ NextIdx(k) \in DOMAIN tasks[k]
    /\ tasks[k][NextIdx(k)].st = "panicked"
    /\ mainpc' = [ph |-> "aborted", k |-> k]
    /\ tasks' = [tasks EXCEPT ![k] =
                    [i \in DOMAIN @ |->
                        IF @[i].st \in {"waiting", "head", "get", "fetch", "text"}
                        THEN [@[i] EXCEPT !.st = "cancelled"] ELSE @[i]]]
    /\ UNCHANGED <<maxIo, maxParse, urls, queue, sem, urlResults, workingUrls, bodies,
                   allNodes, nodeResults, report, pbody, pres, input, rawText, counter, counts,
                       urlReport, nodeReport>>

\* slice::sort_by, a stable sort: an entry stands behind the entries that are
\* before it in the order, and behind the earlier ones of its equals;
\* before[i][j] tells that the comparator puts s[i] before s[j]
SortBy(s, before) ==
    LET Ahead(i) == {j \in DOMAIN s :
                        \/ before[j][i]
                        \/ ~before[i][j] /\ j < i}
    IN  [n \in DOMAIN s |-> s[CHOOSE i \in DOMAIN s : Cardinality(Ahead(i)) = n - 1]]

\* variant: the slower URL goes first
SlowerFirst(a, b) == a.latency.v > b.latency.v

\* a.1.partial_cmp(&b.1) is Less
FasterFirst(a, b) == a.latency.v < b.latency.v

\* String::cmp of the hosts of the model: the order of their bytes
HostOrder == <<V6Host, "A", "a", "b">>

HostRank(h) == CHOOSE n \in DOMAIN HostOrder : HostOrder[n] = h

\* a.node.host.cmp(&b.node.host).then_with(|| a.node.port.cmp(&b.node.port))
\* is Less
HostThenPort(a, b) ==
    \/ HostRank(a.node.host) < HostRank(b.node.host)
    \/ a.node.host = b.node.host /\ a.node.port < b.node.port

\* the placeholder of an absent status or latency, an em-dash
Dash == "em-dash"

\* map_or(placeholder, ..) of an Option
Render(opt) == IF opt.some THEN ToString(opt.v) ELSE Dash

\* the table rows of write_url_report: url and latency, by latency
write_url_report(working) ==
    LET sorted == SortBy(working, [i \in DOMAIN working |-> [j \in DOMAIN working |->
                                      FasterFirst(working[i], working[j])]])
    IN  [n \in DOMAIN sorted |-> [url |-> sorted[n].url, latency |-> sorted[n].latency.v]]

\* the table rows of write_node_report: host, port, status and latency, by
\* host and port
write_node_report(results) ==
    LET sorted == SortBy(results, [i \in DOMAIN results |-> [j \in DOMAIN results |->
                                      HostThenPort(results[i], results[j])]])
    IN  [n \in DOMAIN sorted |->
            [host |-> sorted[n].node.host, port |-> sorted[n].node.port,
             status |-> Render(sorted[n].status), latency |-> Render(sorted[n].latency)]]

\* variant: every status the probe accepts counts as working
WorkingBelow400(r) == r.status.some /\ r.status.v < 400

\* the filter `r.status == Some(200)` that builds working_urls
Working(r) == r.status = Some(200)

\* every handle of the wave is awaited: main builds the input of the next
\* wave and its semaphore, or writes the node report after the last one
Advance(k) ==
    /\ mainpc = [ph |-> "collect", k |-> k]
    /\ AllJoined(k)
    /\ mainpc' = IF k = 4 THEN [ph |-> "done", k |-> 4] ELSE [ph |-> "spawn", k |-> k + 1]
    /\ workingUrls' = IF k = 1
         THEN SelectSeq(urlResults, Working)
         ELSE workingUrls
    /\ queue' = CASE k = 1 -> [i \in DOMAIN workingUrls' |-> workingUrls'[i].url]
                  [] k = 2 -> bodies
                  [] k = 3 -> SetToSeq(allNodes)
                  [] OTHER -> <<>>
    /\ sem' = IF k = 4 THEN sem ELSE [sem EXCEPT ![k + 1] = Limit(k + 1)]
    /\ report' = (k = 4)
    /\ urlReport' = IF k = 1 THEN Some(write_url_report(workingUrls')) ELSE urlReport
    /\ nodeReport' = IF k = 4 THEN Some(write_node_report(nodeResults)) ELSE nodeReport
    /\ rawText' = IF k = 1 THEN <<>> ELSE rawText
    /\ UNCHANGED <<maxIo, maxParse, urls, tasks, urlResults, bodies, allNodes, nodeResults,
                   pbody, pres, input, counter, counts>>

Next ==
    \/ Setup
    \/ SetupFail
    \/ \E k \in Stages : Spawn(k)
    \/ \E k \in Stages : SpawnEnd(k)
    \/ \E k \in Stages : \E i \in DOMAIN tasks[k] : Acquire(k, i)
    \/ \E k \in {1, 4} : \E i \in DOMAIN tasks[k] : \E s \in Statuses : HeadRespond(k, i, s)
    \/ \E k \in {1, 4} : \E i \in DOMAIN tasks[k] : HeadError(k, i)
    \/ \E k \in {1, 4} : \E i \in DOMAIN tasks[k] : \E s \in Statuses : GetRespond(k, i, s)
    \/ \E k \in {1, 4} : \E i \in DOMAIN tasks[k] : GetError(k, i)
    \/ \E k \in {1, 4} : \E i \in DOMAIN tasks[k] : ProbeTimeout(k, i)
    \/ \E i \in DOMAIN tasks[2] : FetchSendOk(i)
    \/ \E i \in DOMAIN tasks[2] : FetchSendFail(i)
    \/ \E i \in DOMAIN tasks[2] : \E b \in PipeBodies : FetchText(i, b)
    \/ \E i \in DOMAIN tasks[2] : FetchTextErr(i)
    \/ \E i \in DOMAIN tasks[3] : ParseRun(i)
    \/ \E k \in Stages : Collect(k)
    \/ \E k \in Stages : CollectAbort(k)
    \/ \E k \in Stages : Advance(k)

Spec == Init /\ [][Next]_vars

\* the run under fair scheduling: the runtime polls every task that can go
\* on, every request is answered or runs into its timeout, and main goes on
\* whenever the handle it awaits is ready, so a step that can be taken is
\* taken in the end
SpecFair == Spec /\ WF_vars(Next)

----------------------------------------------------------------------------
(* The dispatcher on its own: a body is drawn and a function applied to it *)

InitParse ==
    /\ mainpc = [ph |-> "idle", k |-> 0]
    /\ maxIo = 0
    /\ maxParse = 0
    /\ urls = {}
    /\ queue = <<>>
    /\ tasks = [k \in Stages |-> <<>>]
    /\ sem = [k \in Stages |-> 0]
    /\ urlResults = <<>>
    /\ workingUrls = <<>>
    /\ bodies = <<>>
    /\ allNodes = {}
    /\ nodeResults = <<>>
    /\ report = FALSE
    /\ pbody \in ParseBodies
    /\ pres = [op |-> "unset"]
    /\ input = [path |-> "file", client |-> TRUE]
    /\ rawText = <<>>
    /\ counter = [k \in Stages |-> 0]
    /\ counts = [k \in Stages |-> <<>>]
    /\ urlReport = None
    /\ nodeReport = None

Detect ==
    /\ pres.op = "unset"
    /\ pres' = [op |-> "detect", slow |-> FALSE, r |-> detect_format_and_parse(pbody)]
    /\ UNCHANGED <<pipeVars, pbody>>

Safe ==
    /\ pres.op = "unset"
    /\ \E slow \in BOOLEAN :
        pres' = [op |-> "safe", slow |-> slow, r |-> parse_subscription_safe(pbody, slow)]
    /\ UNCHANGED <<pipeVars, pbody>>

\* parse_protocol_url applied to the text as it is
ProtocolUrl(protocol) ==
    /\ pres.op = "unset"
    /\ pbody.pad = "none"
    /\ pres' = [op |-> "url", protocol |-> protocol,
                r |-> parse_protocol_url(pbody.items, protocol)]
    /\ UNCHANGED <<pipeVars, pbody>>

\* one parser of the chain applied to the text as it is
PerMatchParsers == {"yaml", "vmess", "ssr", "inline", "generic"}

PerMatch(parser) ==
    /\ pres.op = "unset"
    /\ pbody.pad = "none"
    /\ pres' = [op |-> "parse", parser |-> parser, r |-> RunParser(parser, pbody.items)]
    /\ UNCHANGED <<pipeVars, pbody>>

\* the parsers that cap their loop with Iterator::take, and their caps
CappedParsers == {"yaml", "inline", "generic"}

CapOf(parser) ==
    CASE parser = "yaml"   -> MAX_PROXIES_PER_CONFIG
      [] parser = "inline" -> MAX_JSON_MATCHES
      [] OTHER             -> MAX_HOSTPORT_MATCHES

\* the kind of the entries or matches a capped parser turns into nodes
OwnKind(parser) ==
    CASE parser = "yaml"   -> "entry"
      [] parser = "inline" -> "inline"
      [] OTHER             -> "hostport"

\* a text of n + 1 entries or matches of the parser: n times the first, then
\* the last; a proxies document opens with its yaml item, which holds the
\* first entry
LongText(parser, first, last, n) ==
    IF parser = "yaml"
    THEN <<[k |-> "yaml", h |-> first.h, p |-> first.p, c |-> FALSE]>>
            \o [i \in 1..(n - 1) |-> first] \o <<last>>
    ELSE [i \in 1..n |-> first] \o <<last>>

\* a capped parser applied to a text that holds one entry or match less than
\* its cap, or as many, ahead of the last one
Capped(parser) ==
    /\ pres.op = "unset"
    /\ pbody.pad = "none"
    /\ Len(pbody.items) = 2
    /\ \A i \in 1..2 : pbody.items[i].k = OwnKind(parser) /\ ~pbody.items[i].c
    /\ \E n \in {CapOf(parser) - 1, CapOf(parser)} :
        pres' = [op |-> "capped", parser |-> parser, n |-> n,
                 r |-> RunParser(parser, LongText(parser, pbody.items[1], pbody.items[2], n))]
    /\ UNCHANGED <<pipeVars, pbody>>

\* safe_limit_text applied to the body
LimitText ==
    /\ pres.op = "unset"
    /\ pres' = [op |-> "limit", r |-> safe_limit_text(pbody)]
    /\ UNCHANGED <<pipeVars, pbody>>

NextParse ==
    \/ Detect
    \/ LimitText
    \/ Safe
    \/ \E protocol \in {"vless", "trojan", "ss"} : ProtocolUrl(protocol)
    \/ \E parser \in PerMatchParsers : PerMatch(parser)
    \/ \E parser \in CappedParsers : Capped(parser)

SpecParse == InitParse /\ [][NextParse]_vars

----------------------------------------------------------------------------
(* Properties of the dispatcher, checked under SpecParse *)

\* the dispatcher was applied to pbody and returned
Detected == pres.op = "detect" /\ ~pres.r.panic

\* the text the parsers see
PText == safe_limit_text(pbody).text

PNonBlank == ~(IsBlank(pbody.items) /\ pbody.pad = "none")

\* the priority order of section 4.3 of the specification
PriorityOrder == <<"yaml", "json", "vmess", "vless", "trojan", "ss", "ssr", "inline",
                   "generic">>

Rank(parser) == CHOOSE i \in DOMAIN PriorityOrder : PriorityOrder[i] = parser

\* the positions of the parsers that are triggered on PText and find a node
Yielding == {i \in DOMAIN PriorityOrder :
                /\ Trigger(PriorityOrder[i], PText)
                /\ RunParser(PriorityOrder[i], PText) # <<>>}

\* C1: for a non-blank body the dispatcher returns the node list of the first
\* parser, in the order yaml, json, vmess, vless, trojan, ss, ssr, inline,
\* generic, that is triggered and finds a node; no parser behind it is
\* invoked; the generic result comes back only when every triggered parser
\* before it found nothing
C1_FirstYieldingParserWins ==
    (Detected /\ PNonBlank) =>
        /\ Yielding # {} =>
            /\ pres.r.nodes = RunParser(PriorityOrder[MinOf(Yielding)], PText)
            /\ pres.r.by = PriorityOrder[MinOf(Yielding)]
            /\ \A j \in DOMAIN pres.r.tried : Rank(pres.r.tried[j]) <= MinOf(Yielding)
        /\ Yielding = {} => pres.r.nodes = <<>>
        /\ pres.r.by = "generic" =>
            \A i \in 1..(Len(PriorityOrder) - 1) :
                Trigger(PriorityOrder[i], PText) => RunParser(PriorityOrder[i], PText) = <<>>

\* a vmess URI won although the vless parser and the generic parser would
\* have found other nodes
C1_Witness ==
    /\ Detected
    /\ pres.r.by = "vmess"
    /\ parse_protocol_url(PText, "vless") # <<>>
    /\ parse_protocol_url(PText, "vless") # pres.r.nodes

\* C2: a triggered parser that finds no node makes the chain go on: the next
\* triggered parser is invoked, and the result is empty only if every later
\* triggered parser, the generic one included, finds nothing as well
C2_EmptyResultFallsThrough ==
    (Detected /\ PNonBlank) =>
        \A i \in 1..(Len(PriorityOrder) - 1) :
            (Trigger(PriorityOrder[i], PText) /\ RunParser(PriorityOrder[i], PText) = <<>>
                /\ \E j \in DOMAIN pres.r.tried : pres.r.tried[j] = PriorityOrder[i])
            =>
            /\ \E j \in DOMAIN pres.r.tried : Rank(pres.r.tried[j]) > i
            /\ \A n \in (i + 1)..Len(PriorityOrder) :
                 (Trigger(PriorityOrder[n], PText)
                    /\ \A m \in (i + 1)..(n - 1) : ~Trigger(PriorityOrder[m], PText))
                 => \E j \in DOMAIN pres.r.tried : pres.r.tried[j] = PriorityOrder[n]
            /\ pres.r.nodes = <<>> =>
                 \A n \in (i + 1)..Len(PriorityOrder) :
                    Trigger(PriorityOrder[n], PText) => RunParser(PriorityOrder[n], PText) = <<>>

\* the structured-config parser was invoked, found nothing, and a later
\* parser supplied the nodes
C2_Witness ==
    /\ Detected
    /\ pres.r.tried # <<>> /\ pres.r.tried[1] = "yaml"
    /\ pres.r.by # "yaml"
    /\ pres.r.nodes # <<>>

\* the body holds a structured-config block with `proxies:` whose entry is
\* well formed, and a vmess:// URI
YamlAndVmess ==
    /\ \E i \in DOMAIN pbody.items :
          pbody.items[i].k = "yaml" /\ ~pbody.items[i].c /\ PortInRange(pbody.items[i].p)
    /\ \E i \in DOMAIN pbody.items : pbody.items[i].k = "vmess"

\* C3 as stated: with a `proxies:` block and a vmess:// URI in the body the
\* structured-config result always wins and the vmess parser is never invoked
C3_YamlAlwaysWins ==
    (Detected /\ YamlAndVmess) =>
        /\ pres.r.by = "yaml"
        /\ \A j \in DOMAIN pres.r.tried : pres.r.tried[j] # "vmess"

\* C3 amended: with a `proxies:` block and a vmess:// URI in the body the
\* structured-config result wins and the vmess parser is not invoked whenever
\* the structured-config parser finds a node in the body; when it finds none
\* (the URI line makes the whole text an invalid document) the chain goes on
\* and the vmess parser is invoked, unless the JSON-config parser before it
\* was triggered and found a node
C3_YamlWinsWhenItYields ==
    (Detected /\ YamlAndVmess) =>
        IF parse_clash_yaml(PText) # <<>>
        THEN /\ pres.r.nodes = parse_clash_yaml(PText)
             /\ pres.r.by = "yaml"
             /\ \A j \in DOMAIN pres.r.tried : pres.r.tried[j] # "vmess"
        ELSE \/ \E j \in DOMAIN pres.r.tried : pres.r.tried[j] = "vmess"
             \/ pres.r.by = "json"

\* the block and a URI with another host in one body, the block's node returned
C3_Witness ==
    /\ Detected /\ YamlAndVmess
    /\ pres.r.by = "yaml"
    /\ \E i \in DOMAIN pbody.items :
          /\ pbody.items[i].k = "vmess" /\ PortInRange(pbody.items[i].p)
          /\ Node(pbody.items[i].h, pbody.items[i].p) \notin Range(pres.r.nodes)

----------------------------------------------------------------------------
(* Properties of the pipeline, checked under Spec *)

\* the number of inputs of wave k, once its inputs are complete
NumInputs(k) ==
    CASE k = 1 -> Cardinality(urls)
      [] k = 2 -> Len(workingUrls)
      [] k = 3 -> Len(bodies)
      [] OTHER -> Cardinality(allNodes)

\* the number of results main has taken from wave k
NumCollected(k) == Cardinality({i \in DOMAIN tasks[k] : tasks[k][i].st = "joined"})

\* C4: the stages are barriers: while a task of stage k+1 exists, every input
\* of stage k has been spawned, every task of stage k has ended and main has
\* collected its result
C4_StagesAreBarriers ==
    \A k \in 1..3 :
        tasks[k + 1] # <<>> =>
            /\ mainpc.k >= k + 1
            /\ Len(tasks[k]) = NumInputs(k)
            /\ \A i \in DOMAIN tasks[k] : tasks[k][i].st = "joined"
            /\ k = 1 => Len(urlResults) = NumInputs(1)

\* a run with two URLs and two bodies that has come to probe its nodes
C4_Witness ==
    /\ Len(tasks[1]) = 2 /\ Len(tasks[2]) = 2 /\ Len(tasks[3]) = 2
    /\ \E i \in DOMAIN tasks[4] : tasks[4][i].st \in Holding

\* C5: in every wave the tasks that hold a permit number at most
\* max_io_workers (max_parse_workers in the parse wave); a task that waits for
\* its permit has sent no request and has no result; the permits not held by
\* running tasks are all back in the semaphore, however the tasks ended
C5_PermitsBoundConcurrency ==
    \A k \in Stages :
        /\ Held(k) <= Limit(k)
        /\ mainpc.k >= k => sem[k] + Held(k) = Limit(k)
        /\ \A i \in DOMAIN tasks[k] :
              tasks[k][i].st = "waiting" =>
                  /\ tasks[k][i].heads = 0 /\ tasks[k][i].gets = 0
                  /\ tasks[k][i].head = Unset /\ tasks[k][i].get = Unset
                  /\ tasks[k][i].res = Unset

\* one permit, two URLs: the first probe timed out, its permit went to the second
C5_Witness ==
    /\ Limit(1) = 1
    /\ \E i, j \in DOMAIN tasks[1] :
          /\ tasks[1][i].st = "done" /\ tasks[1][i].head = Failed("timeout")
          /\ tasks[1][j].st \in Holding

\* C6: once setup has succeeded no per-item failure aborts the run
C6_RunNeverAborts == mainpc.ph # "aborted"

\* wave k is over
WaveOver(k) == mainpc.k > k \/ (mainpc.k = k /\ mainpc.ph \in {"done", "aborted"})

\* C8: the failure of one task stays with that task: no sibling is ever
\* cancelled, and a wave that is over has given one result for each of its inputs
C8_FailureStaysLocal ==
    /\ \A k \in Stages : \A i \in DOMAIN tasks[k] : tasks[k][i].st # "cancelled"
    /\ \A k \in Stages : WaveOver(k) => NumCollected(k) = NumInputs(k)

\* the waves whose tasks run http_check
ProbeWaves == {1, 4}

\* C9 as stated: a HEAD answered with 301 is followed by a GET whose status is
\* the one recorded
C9_Head301GoesOnToGet ==
    \A k \in ProbeWaves : \A i \in DOMAIN tasks[k] : LET t == tasks[k][i] IN
        (t.st = "done" /\ t.head = Resp(301)) =>
            /\ t.gets = 1
            /\ t.get.o = "resp" => t.res.status = Some(t.get.s)

\* C9 amended: a HEAD answered with 301 is accepted (301 < 400): no GET is
\* issued and the status recorded is the 301 of the HEAD response
C9_Head301IsTheResult ==
    \A k \in ProbeWaves : \A i \in DOMAIN tasks[k] : LET t == tasks[k][i] IN
        (t.st = "done" /\ t.head = Resp(301)) =>
            /\ t.gets = 0 /\ t.get = Unset
            /\ t.res.status = Some(301)

\* a probe whose HEAD was answered with 301 has ended
C9_Witness ==
    \E k \in ProbeWaves : \E i \in DOMAIN tasks[k] :
        tasks[k][i].st = "done" /\ tasks[k][i].head = Resp(301)

\* the HEAD was answered with a status of 400 or more, or failed in transport
HeadRejected(t) == (t.head.o = "resp" /\ t.head.s >= 400) \/ t.head.o = "err"

\* C10: the HEAD goes first; a HEAD status below 400 is the result and no GET
\* is issued; after a HEAD status of 400 or more or a transport error exactly
\* one GET is issued and its outcome alone is the result: its status if it
\* answered, none if it failed
C10_HeadThenGet ==
    \A k \in ProbeWaves : \A i \in DOMAIN tasks[k] : LET t == tasks[k][i] IN
        /\ t.st \in {"head", "get", "done"} => t.heads = 1
        /\ (t.gets > 0 \/ t.get # Unset) => HeadRejected(t)
        /\ (t.head.o = "resp" /\ t.head.s < 400) =>
              /\ t.gets = 0
              /\ t.st = "done" /\ t.res.status = Some(t.head.s)
        /\ HeadRejected(t) =>
              /\ t.gets = 1
              /\ t.st = "done" =>
                    /\ t.get.o = "resp" => t.res.status = Some(t.get.s)
                    /\ t.get.o # "resp" => t.res.status = None

\* the HEAD was refused with 404 and the GET that followed answered 200
C10_Witness ==
    \E k \in ProbeWaves : \E i \in DOMAIN tasks[k] : LET t == tasks[k][i] IN
        /\ t.st = "done" /\ t.head = Resp(404) /\ t.get = Resp(200)
        /\ t.res.status = Some(200)

\* the attempt of probe task t ended without a response: the deadline passed
\* during the HEAD or the GET, or the GET failed in transport
NoResponse(t) == t.head = Failed("timeout") \/ t.get \in {Failed("timeout"), Failed("err")}

\* C11: in every result of a probe, of a URL or of a node, the status and the
\* latency are both present or both absent; they are absent exactly when the
\* attempt timed out or ended in a transport error, and what main records
\* in the UrlResult or NodeResult has the same shape
C11_StatusAndLatencyTogether ==
    /\ \A k \in ProbeWaves : \A i \in DOMAIN tasks[k] : LET t == tasks[k][i] IN
          t.st = "done" =>
              /\ t.res.status.some <=> t.res.latency.some
              /\ ~t.res.status.some <=> NoResponse(t)
    /\ \A j \in DOMAIN urlResults : urlResults[j].status.some <=> urlResults[j].latency.some
    /\ \A j \in DOMAIN nodeResults : nodeResults[j].status.some <=> nodeResults[j].latency.some

\* main recorded one URL without status and latency and another with both,
\* and a node probe whose GET ran into the deadline ended without either
C11_Witness ==
    /\ \E j \in DOMAIN urlResults : ~urlResults[j].status.some /\ ~urlResults[j].latency.some
    /\ \E j \in DOMAIN urlResults : urlResults[j].status.some /\ urlResults[j].latency.some
    /\ \E i \in DOMAIN tasks[4] : LET t == tasks[4][i] IN
          t.st = "done" /\ t.get = Failed("timeout") /\ ~t.res.status.some

\* the candidate URLs whose probe gave status 200
Probed200 == {urlResults[j].url : j \in {n \in DOMAIN urlResults : urlResults[n].status = Some(200)}}

\* the URLs handed to fetch tasks so far
Fetched == {tasks[2][i].item : i \in DOMAIN tasks[2]}

\* C12: the URLs passed to the fetch wave, which are the rows of the URL
\* report, are exactly the candidates probed with status 200; a URL probed
\* with another status or without one is never fetched, and one probed with
\* 200 is fetched exactly once
C12_Only200IsFetched ==
    /\ mainpc.k >= 2 => {workingUrls[j].url : j \in DOMAIN workingUrls} = Probed200
    /\ Fetched \subseteq Probed200
    /\ \A i, j \in DOMAIN tasks[2] : tasks[2][i].item = tasks[2][j].item => i = j
    /\ \A i \in DOMAIN tasks[2] : tasks[2][i].gets <= 1
    /\ (mainpc.k > 2 \/ mainpc = [ph |-> "collect", k |-> 2]) =>
          /\ Fetched = Probed200
          /\ Len(tasks[2]) = Cardinality(Probed200)

\* of two candidates one was probed with 200 and one with 301; the fetch
\* wave is spawned and has the first one only
C12_Witness ==
    /\ mainpc = [ph |-> "collect", k |-> 2]
    /\ \E j \in DOMAIN urlResults : urlResults[j].status = Some(301)
    /\ Cardinality(Probed200) = 1 /\ Len(tasks[2]) = 1

\* main joins fetch task i, whose fetch gave no body
JoinsFailedFetch(i) ==
    /\ tasks[2][i].st = "done" /\ ~tasks[2][i].res.some
    /\ tasks'[2][i].st = "joined"

\* C13: a URL probed with 200 whose fetch fails or times out gives nothing to
\* the parse wave, and is not made a probe failure: joining its task adds
\* no body and leaves its probe result and its row of the working URLs as
\* they were; after the probe wave neither of the two ever changes, and the
\* bodies of the parse wave are the ones pushed
C13_FailedFetchGivesNoBody ==
    [][ /\ \A i \in DOMAIN tasks[2] : JoinsFailedFetch(i) =>
              /\ bodies' = bodies
              /\ \E j \in DOMAIN workingUrls' :
                    workingUrls'[j].url = tasks[2][i].item /\ workingUrls'[j].status = Some(200)
        /\ mainpc.k >= 2 => UNCHANGED <<urlResults, workingUrls>>
        /\ Len(bodies') >= Len(bodies)
        /\ \A i \in DOMAIN tasks'[3] : \E j \in DOMAIN bodies' : tasks'[3][i].item = bodies'[j]
      ]_vars

\* the run is over; of two working URLs one was fetched and parsed, the
\* other, whose fetch failed, has its row and no body
C13_Witness ==
    /\ mainpc.ph = "done" /\ Len(workingUrls) = 2 /\ Len(bodies) = 1 /\ Len(tasks[3]) = 1
    /\ \E j \in DOMAIN urlResults :
          /\ urlResults[j].status = Some(200)
          /\ \A n \in DOMAIN bodies : bodies[n].url # urlResults[j].url

\* the distinct URLs that occur in the input text
UrlsOfText == {rawText[n] : n \in {m \in DOMAIN rawText : rawText[m] \in Urls}}

\* how often word w occurs in the input text
Occurrences(w) == Cardinality({n \in DOMAIN rawText : rawText[n] = w})

\* C14: the candidate URLs are made distinct before any request: however
\* often a URL occurs in the input text, the candidates are the distinct
\* URLs of the text, no two tasks of the probe wave have the same URL and none
\* sends more than one HEAD, and once the wave is spawned it has exactly one
\* task for each candidate
C14_EachUrlProbedOnce ==
    /\ mainpc.k = 1 => urls = UrlsOfText
    /\ \A i, j \in DOMAIN tasks[1] : tasks[1][i].item = tasks[1][j].item => i = j
    /\ \A i \in DOMAIN tasks[1] : tasks[1][i].item \in urls /\ tasks[1][i].heads <= 1
    /\ (mainpc.k > 1 \/ mainpc = [ph |-> "collect", k |-> 1]) =>
          /\ {tasks[1][i].item : i \in DOMAIN tasks[1]} = urls
          /\ Len(tasks[1]) = Cardinality(urls)

\* the text names one URL twice; the probe wave has one task, whose result
\* main has collected
C14_Witness ==
    /\ \E u \in Urls : Occurrences(u) = 2
    /\ mainpc = [ph |-> "collect", k |-> 1] /\ Len(tasks[1]) = 1 /\ Len(urlResults) = 1

\* every node some fetched body parses to
ParsedNodes ==
    UNION {Range(parse_subscription_safe(bodies[j].body, FALSE).nodes) : j \in DOMAIN bodies}

\* C15: the node set is the union of the parsed node lists, a node being its
\* host, told apart by case, and its port: a node of two bodies or twice in
\* one is there once, nodes of one host and two ports, or of hosts that differ
\* in case, are all there; the last wave has one task for each node of the
\* set, which sends its requests to http://host:port, and main records one
\* NodeResult for each, with the node as it was given
C15_NodesDistinctByHostAndPort ==
    /\ mainpc.k = 4 => allNodes = ParsedNodes
    /\ \A i, j \in DOMAIN tasks[4] : tasks[4][i].item = tasks[4][j].item => i = j
    /\ \A i \in DOMAIN tasks[4] : LET t == tasks[4][i] IN
          /\ t.item \in allNodes
          /\ t.st \in {"head", "get", "done"} =>
                t.target = [scheme |-> "http", host |-> t.item.host, port |-> t.item.port]
    /\ \A j \in DOMAIN nodeResults : nodeResults[j].node = tasks[4][j].item
    /\ mainpc.ph = "done" =>
          /\ {nodeResults[j].node : j \in DOMAIN nodeResults} = allNodes
          /\ Len(nodeResults) = Cardinality(allNodes)

\* the run is over with a result for each of two nodes whose hosts differ in
\* case only
C15_Witness ==
    /\ mainpc.ph = "done"
    /\ \E i, j \in DOMAIN nodeResults :
          /\ nodeResults[i].node = Node("a", 80) /\ nodeResults[j].node = Node("A", 80)

\* the setup cannot succeed: the input path does not exist or cannot be
\* read, or the HTTP client cannot be built
BadSetup == input.path \in {"missing", "baddir"} \/ ~input.client

\* C19: on a bad input path or a client that cannot be built the run ends
\* with the error before any URL is probed: main never leaves the setup
\* but to fail, no wave is started and no report written
C19_BadSetupAborts ==
    BadSetup =>
        /\ mainpc.ph \in {"setup", "setup_failed"}
        /\ \A k \in Stages : tasks[k] = <<>>
        /\ ~report

\* the tasks of wave k that have passed their fetch_add
Counted(k) == {i \in DOMAIN tasks[k] : tasks[k][i].st \in {"done", "joined"}}

\* C20: no increment of a progress counter is lost: the counter of a wave
\* stands at the number of its tasks that have incremented it, the counts
\* they obtained are 1, 2, .. up to that number, no two tasks hold the same
\* count, and when main has joined the N tasks of the wave the counter is N
\* and the counts are exactly 1..N
C20_NoLostCount ==
    \A k \in Stages :
        /\ counter[k] = Cardinality(Counted(k))
        /\ Len(counts[k]) = counter[k]
        /\ \A n \in DOMAIN counts[k] : counts[k][n] = n
        /\ \A i, j \in DOMAIN tasks[k] :
              (tasks[k][i].st = "done" /\ tasks[k][j].st = "done" /\ i # j) =>
                  /\ tasks[k][i].count \in 1..counter[k]
                  /\ tasks[k][i].count # tasks[k][j].count
        /\ (mainpc.k > k \/ mainpc.ph = "done") =>
              /\ counter[k] = Len(tasks[k])
              /\ Range(counts[k]) = 1..Len(tasks[k])

\* the two probes of the first wave have ended, the second one first: it
\* holds count 1 and the first one count 2
C20_Witness ==
    /\ Len(tasks[1]) = 2 /\ counter[1] = 2
    /\ tasks[1][1].st = "done" /\ tasks[1][1].count = 2
    /\ tasks[1][2].st = "done" /\ tasks[1][2].count = 1

\* how far a task has come: spawned, at its first operation, at its second,
\* ended, awaited by main
Progress(st) ==
    CASE st = "waiting" -> 0
      [] st \in {"head", "fetch", "parse"} -> 1
      [] st \in {"get", "text"} -> 2
      [] st \in {"done", "panicked", "cancelled"} -> 3
      [] OTHER -> 4

\* C21: nothing is retried: the tasks of a wave are never given an item a
\* second time, a task only moves forward and passes each of its operations
\* once, so a result, failed or not, is final; a probe sends one HEAD and at
\* most one GET, a fetch one GET
C21_NothingIsRetried ==
    [][ \A k \in Stages :
          /\ Len(tasks'[k]) >= Len(tasks[k])
          /\ \A i, j \in DOMAIN tasks'[k] : tasks'[k][i].item = tasks'[k][j].item => i = j
          /\ \A i \in DOMAIN tasks[k] :
                /\ tasks'[k][i].item = tasks[k][i].item
                /\ Progress(tasks'[k][i].st) >= Progress(tasks[k][i].st)
                /\ tasks'[k][i].st # tasks[k][i].st =>
                      Progress(tasks'[k][i].st) > Progress(tasks[k][i].st)
                /\ tasks'[k][i].heads <= 1 /\ tasks'[k][i].gets <= 1
                /\ tasks'[k][i].st = "done" =>
                      /\ tasks'[k][i].heads = (IF k \in ProbeWaves THEN 1 ELSE 0)
                      /\ k = 2 => tasks'[k][i].gets = 1
      ]_vars

\* the run is over; a URL probe that gave no status and a fetch that gave no
\* body were left as they ended
C21_Witness ==
    /\ mainpc.ph = "done"
    /\ \E j \in DOMAIN urlResults : ~urlResults[j].status.some
    /\ Len(workingUrls) = 1 /\ bodies = <<>>

Rows(rep) == IF rep.some THEN rep.v ELSE <<>>

\* C23: the URL report has exactly one row for each URL probed with status
\* 200, the rows in ascending order of latency; the node report has exactly
\* one row for each probed node, the rows in ascending order of host and,
\* for one host, of port, with the placeholder where a status or a latency
\* is absent
C23_ReportsSortedAndComplete ==
    /\ urlReport.some =>
          LET rows == urlReport.v IN
          /\ {rows[n].url : n \in DOMAIN rows} = Probed200
          /\ Len(rows) = Cardinality(Probed200)
          /\ \A n \in DOMAIN rows : \E j \in DOMAIN urlResults :
                urlResults[j].url = rows[n].url /\ urlResults[j].latency = Some(rows[n].latency)
          /\ \A m, n \in DOMAIN rows : m < n => rows[m].latency <= rows[n].latency
    /\ nodeReport.some =>
          LET rows == nodeReport.v IN
          /\ Len(rows) = Len(nodeResults) /\ Len(rows) = Cardinality(allNodes)
          /\ \A j \in DOMAIN nodeResults : \E n \in DOMAIN rows :
                /\ rows[n].host = nodeResults[j].node.host
                /\ rows[n].port = nodeResults[j].node.port
                /\ nodeResults[j].status.some => rows[n].status = ToString(nodeResults[j].status.v)
                /\ ~nodeResults[j].status.some => rows[n].status = "em-dash"
                /\ nodeResults[j].latency.some =>
                      rows[n].latency = ToString(nodeResults[j].latency.v)
                /\ ~nodeResults[j].latency.some => rows[n].latency = "em-dash"
          /\ \A m, n \in DOMAIN rows : m < n =>
                \/ HostRank(rows[m].host) < HostRank(rows[n].host)
                \/ rows[m].host = rows[n].host /\ rows[m].port < rows[n].port

\* both reports are written, each with two rows in another order than main
\* collected the results in, and one node row holds the placeholder
C23_Witness ==
    /\ mainpc.ph = "done"
    /\ Len(Rows(urlReport)) = 2 /\ Rows(urlReport)[1].url # urlResults[1].url
    /\ Len(Rows(nodeReport)) = 2
    /\ Rows(nodeReport)[1].host # nodeResults[1].node.host
    /\ \E n \in DOMAIN Rows(nodeReport) : Rows(nodeReport)[n].status = "em-dash"

\* C26: the body fetch is time-boxed as the probe is: a fetch that takes
\* longer than the fetch timeout from the request to the end of the body
\* gives none, and the text is returned only when the whole GET ended within
\* the timeout
C26_LateFetchGivesNone ==
    \A i \in DOMAIN tasks[2] :
        (tasks[2][i].st = "done" /\ tasks[2][i].slow) => ~tasks[2][i].res.some

\* C27 as stated: the collector of a wave gathers the results in the order
\* the tasks finish: a result is gathered only when every task that
\* finished earlier has been gathered
C27_CollectedAsFinished ==
    [][\A k \in Stages : \A i \in DOMAIN tasks[k] :
          (i \in DOMAIN tasks'[k] /\ tasks[k][i].st = "done" /\ tasks'[k][i].st = "joined") =>
              \A j \in DOMAIN tasks[k] :
                  tasks[k][j].st = "done" => tasks[k][j].count >= tasks[k][i].count]_vars

\* C27, amended: the collector of a wave gathers the results in spawn order,
\* whatever order the tasks finish in: the handles awaited so far are the
\* first ones spawned, and the results of the probe waves stand in the order
\* of their tasks
C27_CollectedInSpawnOrder ==
    /\ \A k \in Stages : \A i, j \in DOMAIN tasks[k] :
          (i < j /\ tasks[k][j].st = "joined") => tasks[k][i].st = "joined"
    /\ \A j \in DOMAIN urlResults :
          j \in DOMAIN tasks[1] /\ urlResults[j].url = tasks[1][j].item
    /\ \A j \in DOMAIN nodeResults :
          j \in DOMAIN tasks[4] /\ nodeResults[j].node = tasks[4][j].item

\* the task spawned first has been gathered, and it finished after the task
\* spawned second, which is done and not gathered yet
C27_Witness ==
    /\ mainpc = [ph |-> "collect", k |-> 1]
    /\ Len(tasks[1]) = 2
    /\ tasks[1][1].st = "joined" /\ Len(urlResults) = 1
    /\ tasks[1][2].st = "done" /\ tasks[1][2].count = 1

----------------------------------------------------------------------------
(* Termination, checked under SpecFair *)

\* a task waits for its permit
SomeTaskWaits == \E k \in Stages : \E i \in DOMAIN tasks[k] : tasks[k][i].st = "waiting"

\* main has returned
Returned == mainpc.ph \in {"done", "aborted", "setup_failed"}

\* every spawned task acquires its permit in the end: from some point on no
\* task waits for one
C31_NoTaskWaitsForever == <>[](~SomeTaskWaits)

\* a run whose setup succeeded comes to write the node report
C31_ReportIsReached == (mainpc.ph = "spawn") ~> (mainpc.ph = "done" /\ nodeReport.some)

\* with a permit or more in each semaphore main returns in every run
C31_ReturnsWithWorkers == (maxIo > 0 /\ maxParse > 0) => <>Returned

\* C31: every run terminates: for every max_io_workers and max_parse_workers
\* the command line accepts and every input, under fair scheduling and with
\* every request answered or timed out, every spawned task acquires a permit
\* and finishes, every wave completes and the run reaches the node report; no
\* task waits for a permit forever
C31_EveryRunTerminates ==
    /\ C31_NoTaskWaitsForever
    /\ C31_ReportIsReached

----------------------------------------------------------------------------
(* Ports and hosts of the parsed nodes, checked under SpecParse *)

C17_SplitAtLastColon ==
    pres.op = "url" =>
        LET caps == ProtocolCaptures(pbody.items, pres.protocol)
            good == SelectSeq(caps, LAMBDA it : it.p <= U16Max)
        IN  pres.r = [i \in DOMAIN good |-> [host |-> good[i].h, port |-> good[i].p]]

\* the vless parser gave the node of `vless://user@2001:db8::1:8443` and
\* none for a capture whose port is 70000
C17_Witness ==
    /\ pres.op = "url" /\ pres.protocol = "vless"
    /\ \E i \in DOMAIN pbody.items : pbody.items[i].k = "vless" /\ pbody.items[i].p = 70000
    /\ pres.r = <<[host |-> "2001:db8::1", port |-> 8443]>>

\* C18: the body is normalized before any parser runs: a body over 50 MB is
\* cut to 50 MB, a body of more than 50,000 lines to its first 50,000, a body
\* within both caps is passed on as it is, and in each case the items, which
\* stand ahead of the filler, are what the parsers get
C18_BodyIsNormalized ==
    pres.op = "limit" =>
        /\ ~pres.r.panic
        /\ pres.r.text = pbody.items
        /\ pbody.pad \in {"ascii50", "utf8cut50", "over100"} => pres.r.cut = "bytes"
        /\ pbody.pad = "lines60k" => pres.r.cut = "lines"
        /\ pbody.pad = "none" => pres.r.cut = "none"

----------------------------------------------------------------------------
(* A failed match and its siblings, checked under SpecParse *)

\* what a parser returns for each item of the text taken alone, in text order
RECURSIVE EachAlone(_, _)
EachAlone(parser, text) ==
    IF text = <<>> THEN <<>>
    ELSE RunParser(parser, <<Head(text)>>) \o EachAlone(parser, Tail(text))

\* a is b with some elements left out
IsSubseq(a, b) ==
    \E f \in [DOMAIN a -> DOMAIN b] :
        /\ \A i, j \in DOMAIN a : i < j => f[i] < f[j]
        /\ \A i \in DOMAIN a : a[i] = b[f[i]]

\* the entries of a well-formed proxies document that hold a port in range
ValidEntries(text) ==
    SelectSeq(text, LAMBDA it : it.k \in {"yaml", "entry"} /\ ~it.c /\ it.p <= U16Max)

\* C24: in a per-match parser a match that fails to decode is dropped alone:
\* the result is the nodes of the valid matches in text order, so a parser
\* returns for a text what it returns for the items of the text one by one,
\* and the YAML parser returns one node for each entry of the document that
\* holds a port in range, whatever the entries before it are
C24_FailedMatchDropsAlone ==
    /\ pres.op = "url" =>
          /\ IsSubseq(EachAlone(pres.protocol, pbody.items), pres.r)
          /\ (pres.protocol # "ss" \/ \A i \in DOMAIN pbody.items : pbody.items[i].k # "vmess")
                => pres.r = EachAlone(pres.protocol, pbody.items)
    /\ (pres.op = "parse" /\ pres.parser # "yaml") =>
          pres.r = EachAlone(pres.parser, pbody.items)
    /\ (pres.op = "parse" /\ pres.parser = "yaml" /\ YamlDocOk(pbody.items)) =>
          /\ Len(pres.r) = Len(ValidEntries(pbody.items))
          /\ \A n \in DOMAIN pres.r :
                /\ pres.r[n].host = ValidEntries(pbody.items)[n].h
                /\ pres.r[n].port = ValidEntries(pbody.items)[n].p

\* a parser was applied to two of its matches, the first with a port out of
\* range and the second valid, and returned the node of the second
C24_Witness ==
    /\ pres.op = "parse"
    /\ Len(pbody.items) = 2
    /\ pbody.items[1].p = 70000 /\ pbody.items[2].p = 80
    /\ pbody.items[1].k = "yaml" /\ pbody.items[2].k = "entry"
    /\ pres.parser = "yaml"
    /\ pres.r = <<Node(pbody.items[2].h, 80)>>

----------------------------------------------------------------------------
(* The triggers of the single-URI parsers, checked under SpecParse *)

\* the text holds a URI of this scheme
HoldsUri(text, scheme) == \E i \in DOMAIN text : text[i].k = scheme

\* C28: the ss parser is triggered by a URI of scheme ss only: for a body
\* that holds vmess or vless URIs and no ss URI the ss parser is not invoked
\* and no node of the result comes from the ss pattern
C28_SsOnlyForSsUris ==
    (/\ Detected
     /\ HoldsUri(PText, "vmess") \/ HoldsUri(PText, "vless")
     /\ ~HoldsUri(PText, "ss")) =>
        /\ \A n \in DOMAIN pres.r.tried : pres.r.tried[n] # "ss"
        /\ pres.r.by # "ss"

----------------------------------------------------------------------------
(* The work caps of the parsers, checked under SpecParse *)

\* the entry or match that follows pres.n others gave the last node
LastGaveANode ==
    /\ pres.r # <<>>
    /\ Len(pres.r) > Len(RunParser(pres.parser,
                                   LongText(pres.parser, pbody.items[1], pbody.items[1],
                                            pres.n - 1)))

\* C29: the YAML parser looks at the first 2000 entries of `proxies` at most,
\* the inline-JSON parser at the first 1000 matches and the generic parser at
\* the first 5000: an entry or match behind the cap gives no node, one within
\* the cap gives its node when it is valid, and no more nodes than the cap
\* are returned
C29_CapsHold ==
    pres.op = "capped" =>
        /\ Len(pres.r) <= CapOf(pres.parser)
        /\ pres.n = CapOf(pres.parser) => ~LastGaveANode
        /\ (pres.n < CapOf(pres.parser) /\ pbody.items[2].p <= U16Max) => LastGaveANode

\* a parser was applied to one valid entry or match more than its cap and
\* returned as many nodes as the cap is
C29_Witness ==
    /\ pres.op = "capped"
    /\ pres.n = CapOf(pres.parser)
    /\ pbody.items[1].p = 80 /\ pbody.items[2].p = 80
    /\ Len(pres.r) = CapOf(pres.parser)

----------------------------------------------------------------------------
(* The host of an inline object, checked under SpecParse *)

\* the inline-JSON parser was applied to pbody
InlineApplied == pres.op = "parse" /\ pres.parser = "inline"

\* the node of item it is in the result
GaveNode(it) == \E n \in DOMAIN pres.r : pres.r[n] = Node(it.h, it.p)

\* an object without the key `server` gives the node of its `address`
C30_AbsentServerFallsBack ==
    InlineApplied =>
        \A i \in DOMAIN pbody.items :
            pbody.items[i].k = "inlineaddr" => GaveNode(pbody.items[i])

\* C30: the inline-JSON parser reads the host from `server` and falls back to
\* `address`: an object with a valid port and a string `address` whose
\* `server` is absent or is no string gives a node with the address as host
C30_AddressIsTheFallback ==
    InlineApplied =>
        \A i \in DOMAIN pbody.items :
            pbody.items[i].k \in {"inlineaddr", "inlinenum"} => GaveNode(pbody.items[i])

----------------------------------------------------------------------------
(* The guards ahead of the chain, checked under SpecParse *)

\* parse_subscription_safe was applied to pbody
SafeApplied == pres.op = "safe"

\* an empty or whitespace-only body gives no node, and no parser is invoked
C25_BlankIsSkipped ==
    (SafeApplied /\ ~PNonBlank) =>
        ~pres.r.panic /\ pres.r.nodes = <<>> /\ pres.r.tried = <<>>

\* a body over 100 MB gives no node, is not cut and no parser is invoked
C25_OversizeIsSkipped ==
    (SafeApplied /\ pbody.pad = "over100") =>
        ~pres.r.panic /\ pres.r.nodes = <<>> /\ pres.r.tried = <<>> /\ pres.r.cut = "none"

\* a body of at most 100 MB that is not blank reaches the parser chain
C25_OthersReachTheChain ==
    (SafeApplied /\ PNonBlank /\ pbody.pad # "over100") =>
        ~pres.r.panic /\ pres.r.tried # <<>>

\* C25: ahead of the dispatch an empty or whitespace-only body gives an empty
\* node list with no parser invoked, a body over 100 MB is skipped whole (no
\* node, no normalization, no parser) and not truncated, and every other body
\* reaches the parser chain
C25_GuardsAheadOfDispatch ==
    /\ C25_BlankIsSkipped
    /\ C25_OversizeIsSkipped
    /\ C25_OthersReachTheChain

----------------------------------------------------------------------------
(* The parse budget, checked under SpecParse *)

\* C7: a body whose parse runs longer than the parse budget gives zero nodes
C7_SlowParseGivesNothing ==
    (pres.op = "safe" /\ pres.slow /\ ~pres.r.panic) => pres.r.nodes = <<>>

====
